---- MODULE Spec2Model ----
(***************************************************************************)
(* Model of bucketbot.py: a Telegram bot built on python-telegram-bot.     *)
(* One ConversationHandler (per_user, per_chat) with the single state      *)
(* WAITING_FOR_CONTENT dispatches text to handle_content; /start is its    *)
(* only entry point and /cancel its only fallback; /help is a separate     *)
(* CommandHandler.  Updates are processed one at a time, and post_entry    *)
(* performs a synchronous requests.post inside the handler.                *)
(*                                                                         *)
(* A text is a sequence of tokens: the token " " is whitespace, every      *)
(* other token is a word.  str.strip() and str.lower() act on tokens.      *)
(***************************************************************************)
EXTENDS Integers, Sequences, FiniteSets, TLC

\* ---------------------------------------------------------------- bounds
NumChats == 2

\* two users: two users can share a chat, and one user can be in two chats
Users == {1, 2}
Chats == 1..NumChats

\* The ConversationHandler's key with per_chat and per_user: (chat.id, user.id)
Identities == Chats \X Users
ChatOf(id) == id[1]
UserOf(id) == id[2]

\* ------------------------------------------------------------- constants
WAITING_FOR_CONTENT == 1
\* ConversationHandler.END: the key is removed from the conversations dict
END == -1

None == "None"
NoDisplay == <<>>

Space == " "
Texts ==
  { <<"Task">>, <<"Note">>, <<"Bookmark">>,
    <<"xyz">>, <<Space>>, <<Space, "Task">>, <<"buy", Space, "milk">> }

\* what requests.post can produce: a response (status, text) or an exception
HttpResponses ==
  { [status |-> 200, text |-> "ok"],
    [status |-> 201, text |-> "created"],
    [status |-> 204, text |-> ""],
    [status |-> 404, text |-> "not found"],
    [status |-> 500, text |-> "oops"] }
Exceptions == { "connection refused" }

\* ------------------------------------------------------ pure functions
\* a choice_map with two values exchanged
get_type_by_choice_swapped(choice) ==
  CASE choice = <<"Task">> -> "task"
    [] choice = <<"Note">> -> "bookmark"
    [] choice = <<"Bookmark">> -> "note"
    [] OTHER -> None

\* choice_map.get(choice)
get_type_by_choice(choice) ==
  CASE choice = <<"Task">> -> "task"
    [] choice = <<"Note">> -> "note"
    [] choice = <<"Bookmark">> -> "bookmark"
    [] OTHER -> None

RECURSIVE lstrip(_)
lstrip(s) ==
  IF s = <<>> THEN <<>>
  ELSE IF Head(s) = Space THEN lstrip(Tail(s)) ELSE s

RECURSIVE rstrip(_)
rstrip(s) ==
  IF s = <<>> THEN <<>>
  ELSE IF s[Len(s)] = Space THEN rstrip(SubSeq(s, 1, Len(s) - 1)) ELSE s

\* content taken from the text as it is
no_strip(s) == s

\* str.strip()
strip(s) == rstrip(lstrip(s))

LowerWord(w) ==
  CASE w = "Task" -> "task"
    [] w = "Note" -> "note"
    [] w = "Bookmark" -> "bookmark"
    [] w = "Entry" -> "entry"
    [] OTHER -> w

\* str.lower()
lower(s) == [i \in 1..Len(s) |-> LowerWord(s[i])]

\* ------------------------------------------------------------- messages
TYPE_KEYBOARD == <<"Task", "Note", "Bookmark">>
NoKeyboard == <<>>
NoStatus == <<>>

Msg(kind, markup, display, status, body) ==
  [kind |-> kind, reply_markup |-> markup, display |-> display,
   status |-> status, body |-> body]

ReadyMsg == Msg("ready", TYPE_KEYBOARD, NoDisplay, NoStatus, "")
InvalidMsg == Msg("invalid_selection", TYPE_KEYBOARD, NoDisplay, NoStatus, "")
SelectedMsg(choice) == Msg("selected", NoKeyboard, choice, NoStatus, "")
EmptyMsg == Msg("empty_content", NoKeyboard, NoDisplay, NoStatus, "")
ConfigErrorMsg == Msg("config_error", NoKeyboard, NoDisplay, NoStatus, "")
SuccessMsg(type_display, status_code, response_text) ==
  Msg("success", TYPE_KEYBOARD, type_display, <<status_code>>, response_text)
\* a failure report sent without reply_markup
FailedMsg_no_keyboard(type_display, status_code, response_text) ==
  Msg("failed", NoKeyboard, lower(type_display), <<status_code>>,
      response_text)

FailedMsg(type_display, status_code, response_text) ==
  Msg("failed", TYPE_KEYBOARD, lower(type_display), <<status_code>>,
      response_text)
HelpMsg == Msg("help", TYPE_KEYBOARD, NoDisplay, NoStatus, "")
CancelledMsg == Msg("cancelled", TYPE_KEYBOARD, NoDisplay, NoStatus, "")

\* ----------------------------------------------------------------- state
VARIABLES
  conv,        \* ConversationHandler._conversations: identity -> state
  user_data,   \* application.user_data: user id -> dict
  api_config,  \* TRUE iff bot_data['api_config'] is set
  pending,     \* <<>> or <<frame>>: handle_content blocked in requests.post
  last         \* the update handled last, with what it emitted and called

vars == <<conv, user_data, api_config, pending, last>>

EmptyData == [entry_type |-> None, type_display |-> NoDisplay]

\* the spec's ConversationState of an identity, read off the program state
ConversationState(id) ==
  IF conv[id] = END THEN "Idle"
  ELSE IF user_data[UserOf(id)].entry_type = None THEN "AwaitingCategory"
  ELSE "AwaitingContent"

\* the spec's SessionContext of an identity: context.user_data of its user
SessionContext(id) == user_data[UserOf(id)]

Snapshot(id) == [state |-> ConversationState(id), ctx |-> SessionContext(id)]

Event(id, kind, text, out, calls, resp) ==
  [id |-> id, kind |-> kind, text |-> text, pre |-> Snapshot(id),
   out |-> out, calls |-> calls, resp |-> resp]

\* ConversationHandler._update_state
UpdateState(id, new_state) == [conv EXCEPT ![id] = new_state]

InitCommon ==
  /\ conv = [id \in Identities |-> END]
  /\ user_data = [u \in Users |-> EmptyData]
  /\ pending = <<>>
  /\ last = [id |-> <<1, 1>>, kind |-> "none", text |-> <<>>,
             pre |-> [state |-> "Idle", ctx |-> EmptyData],
             out |-> <<>>, calls |-> <<>>, resp |-> <<>>]

\* main() stores the api_config before polling starts
Init == InitCommon /\ api_config = TRUE

\* handle_content run against a bot_data with or without 'api_config'
InitAnyConfig == InitCommon /\ api_config \in BOOLEAN

\* --------------------------------------------------------------- handlers
\* each handler yields the user's new user_data, the replies and the
\* returned conversation state
Result(ud, out, ret) == [ud |-> ud, out |-> out, ret |-> ret]

start(ud) == Result(ud, <<ReadyMsg>>, WAITING_FOR_CONTENT)

\* a type selection that keeps a category that is already stored
handle_type_selection_keeps(choice, ud) ==
  LET entry_type == get_type_by_choice(choice) IN
  IF entry_type = None
  THEN Result(ud, <<InvalidMsg>>, WAITING_FOR_CONTENT)
  ELSE Result(IF ud.entry_type = None
              THEN [entry_type |-> entry_type, type_display |-> choice]
              ELSE ud,
              <<SelectedMsg(choice)>>, WAITING_FOR_CONTENT)

\* a type selection that replies twice when a category is stored
handle_type_selection_twice(choice, ud) ==
  LET entry_type == get_type_by_choice(choice) IN
  IF entry_type = None
  THEN Result(ud, <<InvalidMsg>>, WAITING_FOR_CONTENT)
  ELSE Result([entry_type |-> entry_type, type_display |-> choice],
              <<SelectedMsg(choice), SelectedMsg(choice)>>,
              WAITING_FOR_CONTENT)

handle_type_selection(choice, ud) ==
  LET entry_type == get_type_by_choice(choice) IN
  IF entry_type = None
  THEN Result(ud, <<InvalidMsg>>, WAITING_FOR_CONTENT)
  ELSE Result([entry_type |-> entry_type, type_display |-> choice],
              <<SelectedMsg(choice)>>, WAITING_FOR_CONTENT)

\* cancel that stays in the conversation instead of ending it
cancel_stays(ud) == Result(EmptyData, <<CancelledMsg>>, WAITING_FOR_CONTENT)

cancel(ud) == Result(EmptyData, <<CancelledMsg>>, END)

\* a help command that also resets the user's data
help_command_clears(ud) == Result(EmptyData, <<HelpMsg>>, END)

\* returns None: it is no conversation handler and its result is dropped
help_command(ud) == Result(ud, <<HelpMsg>>, END)

\* context.user_data.get('type_display', 'Entry')
GetTypeDisplay(ud) ==
  IF ud.type_display = NoDisplay THEN <<"Entry">> ELSE ud.type_display

\* a success test that forgets 201 Created
IsSuccess_only200(status_code) == status_code = 200

IsSuccess(status_code) == status_code \in {200, 201}

\* what the try block of post_entry meets: requests.post returns a response
\* or raises an exception
RequestsOutcomes ==
  { [raised |-> FALSE, status |-> r.status, text |-> r.text, error |-> ""] :
      r \in HttpResponses } \cup
  { [raised |-> TRUE, status |-> 0, text |-> "", error |-> e] :
      e \in Exceptions }

\* a post_entry whose except branch drops str(e)
post_entry_no_diagnostic(o) ==
  IF o.raised THEN [status |-> 0, text |-> "Network error"]
  ELSE [status |-> o.status, text |-> o.text]

\* post_entry: (status_code, text) of the response, or (0, "Network error: e")
post_entry(o) ==
  IF o.raised THEN [status |-> 0, text |-> "Network error: " \o o.error]
  ELSE [status |-> o.status, text |-> o.text]

post_entry_results == { post_entry(o) : o \in RequestsOutcomes }

\* handle_content that clears user_data on the success branch only
handle_content_result_keeps(frame, r) ==
  Result(IF IsSuccess(r.status) THEN EmptyData
         ELSE [entry_type |-> frame.entry_type,
               type_display |-> frame.type_display],
         IF IsSuccess(r.status)
         THEN <<SuccessMsg(frame.type_display, r.status, r.text)>>
         ELSE <<FailedMsg(frame.type_display, r.status, r.text)>>,
         WAITING_FOR_CONTENT)

\* handle_content from the return of post_entry to the end
handle_content_result(frame, r) ==
  Result(EmptyData,
         IF IsSuccess(r.status)
         THEN <<SuccessMsg(frame.type_display, r.status, r.text)>>
         ELSE <<FailedMsg(frame.type_display, r.status, r.text)>>,
         WAITING_FOR_CONTENT)

\* ---------------------------------------------------------------- actions
\* a check_update that tries the state handlers without a conversation
HasConversation_always(id) == TRUE

\* ConversationHandler.check_update: the handlers of a state and the
\* fallbacks are tried only for a key that has a conversation, the entry
\* points only for a key that has none
HasConversation(id) == conv[id] # END

\* /start: an entry point, tried only when the identity has no conversation
Start(id) ==
  /\ pending = <<>>
  /\ IF ~HasConversation(id)
     THEN LET r == start(user_data[UserOf(id)]) IN
          /\ conv' = UpdateState(id, r.ret)
          /\ user_data' = [user_data EXCEPT ![UserOf(id)] = r.ud]
          /\ last' = Event(id, "start", <<>>, r.out, <<>>, <<>>)
     ELSE /\ UNCHANGED <<conv, user_data>>
          /\ last' = Event(id, "start", <<>>, <<>>, <<>>, <<>>)
  /\ UNCHANGED <<api_config, pending>>

\* /cancel: a fallback, tried only inside a conversation
Cancel(id) ==
  /\ pending = <<>>
  /\ IF HasConversation(id)
     THEN LET r == cancel(user_data[UserOf(id)]) IN
          /\ conv' = UpdateState(id, r.ret)
          /\ user_data' = [user_data EXCEPT ![UserOf(id)] = r.ud]
          /\ last' = Event(id, "cancel", <<>>, r.out, <<>>, <<>>)
     ELSE /\ UNCHANGED <<conv, user_data>>
          /\ last' = Event(id, "cancel", <<>>, <<>>, <<>>, <<>>)
  /\ UNCHANGED <<api_config, pending>>

\* /help: the CommandHandler added after the ConversationHandler
Help(id) ==
  /\ pending = <<>>
  /\ LET r == help_command(user_data[UserOf(id)]) IN
     /\ user_data' = [user_data EXCEPT ![UserOf(id)] = r.ud]
     /\ last' = Event(id, "help", <<>>, r.out, <<>>, <<>>)
  /\ UNCHANGED <<conv, api_config, pending>>

\* a text message: handle_content up to its return or to the requests.post
Text(id, text) ==
  /\ pending = <<>>
  /\ LET ud == user_data[UserOf(id)]
         content == strip(text)
         entry_type == ud.entry_type
         type_display == GetTypeDisplay(ud)
         finish(r) ==
           /\ conv' = UpdateState(id, r.ret)
           /\ user_data' = [user_data EXCEPT ![UserOf(id)] = r.ud]
           /\ last' = Event(id, "text", text, r.out, <<>>, <<>>)
           /\ UNCHANGED pending
     IN
     IF ~HasConversation(id)
       THEN /\ UNCHANGED <<conv, user_data, pending>>
            /\ last' = Event(id, "text", text, <<>>, <<>>, <<>>)
     ELSE IF get_type_by_choice(text) # None
       THEN finish(handle_type_selection(text, ud))
     ELSE IF content = <<>>
       THEN finish(Result(ud, <<EmptyMsg>>, WAITING_FOR_CONTENT))
     ELSE IF ~api_config
       THEN finish(Result(ud, <<ConfigErrorMsg>>, END))
     ELSE /\ pending' = << [id |-> id, entry_type |-> entry_type,
                           content |-> content,
                           type_display |-> type_display] >>
          /\ last' = Event(id, "text", text, <<>>,
                           << [entry_type |-> entry_type,
                               content |-> content] >>, <<>>)
          /\ UNCHANGED <<conv, user_data>>
  /\ UNCHANGED api_config

\* requests.post returns or raises; handle_content reports and clears
PostEntryReturn(r) ==
  /\ pending # <<>>
  /\ LET frame == pending[1]
         res == handle_content_result(frame, r) IN
     /\ conv' = UpdateState(frame.id, res.ret)
     /\ user_data' = [user_data EXCEPT ![UserOf(frame.id)] = res.ud]
     /\ last' = [last EXCEPT !.out = res.out, !.resp = <<r>>]
  /\ pending' = <<>>
  /\ UNCHANGED api_config

Next ==
  \/ \E id \in Identities : Start(id)
  \/ \E id \in Identities : Cancel(id)
  \/ \E id \in Identities : Help(id)
  \/ \E id \in Identities, text \in Texts : Text(id, text)
  \/ \E r \in post_entry_results : PostEntryReturn(r)

Spec == Init /\ [][Next]_vars

SpecAnyConfig == InitAnyConfig /\ [][Next]_vars

\* ------------------------------------------------------- claim vocabulary
Categories == {"task", "note", "bookmark"}
Handled == pending = <<>>
IsLabel(text) == get_type_by_choice(text) # None
HasKeyboard(out) == Len(out) = 1 /\ out[1].reply_markup = TYPE_KEYBOARD

\* C1: for every identity, the conversation state is AwaitingContent exactly
\* when the identity's selected category (user_data['entry_type']) is set.
C1_ContentIffCategory ==
  \A id \in Identities :
    (ConversationState(id) = "AwaitingContent")
      <=> (SessionContext(id).entry_type # None)

\* C2: a start command taken in any state leaves the identity in
\* AwaitingCategory with an empty session context and emits one message
\* carrying the category options.
C2_StartResets ==
  last.kind = "start" =>
    /\ ConversationState(last.id) = "AwaitingCategory"
    /\ SessionContext(last.id) = EmptyData
    /\ HasKeyboard(last.out)

\* C3: a text matching no label, received in AwaitingCategory, keeps the state
\* and the context, emits the invalid-selection message with the options and
\* makes no submission call.
C3_InvalidSelection ==
  (last.kind = "text" /\ last.pre.state = "AwaitingCategory"
     /\ ~IsLabel(last.text)) =>
    /\ ConversationState(last.id) = "AwaitingCategory"
    /\ SessionContext(last.id) = last.pre.ctx
    /\ last.out = <<InvalidMsg>>
    /\ last.calls = <<>>

\* C4: post_entry is invoked only from AwaitingContent, and always with one of
\* task, note, bookmark as its category.
C4_SubmitOnlyWithCategory ==
  \A i \in 1..Len(last.calls) :
    /\ last.pre.state = "AwaitingContent"
    /\ last.calls[i].entry_type \in Categories

\* a text that handle_content takes as content: no label, not blank
IsContent(text) == ~IsLabel(text) /\ strip(text) # <<>>

\* C5: content handled in AwaitingContent with the api_config present leaves
\* the identity in AwaitingCategory with a cleared context, whatever
\* post_entry returned.
C5_CycleAlwaysResets ==
  (last.kind = "text" /\ last.pre.state = "AwaitingContent"
     /\ IsContent(last.text) /\ api_config /\ Handled) =>
    /\ last.resp # <<>>
    /\ ConversationState(last.id) = "AwaitingCategory"
    /\ SessionContext(last.id) = EmptyData

C5_Witness ==
  /\ last.kind = "text" /\ last.pre.state = "AwaitingContent"
  /\ IsContent(last.text) /\ api_config /\ Handled
  /\ last.resp # <<>> /\ last.resp[1].status = 0
  /\ ConversationState(last.id) = "AwaitingCategory"

\* C6: a text that completes a submission cycle made exactly one post_entry
\* call, with a category that was selected (the one stored when the text
\* arrived) and the message's content.
C6_OneCallWithSelectedCategory ==
  (last.kind = "text" /\ last.resp # <<>>) =>
    /\ Len(last.calls) = 1
    /\ last.calls[1].entry_type \in Categories
    /\ last.calls[1].entry_type = last.pre.ctx.entry_type
    /\ last.calls[1].content = strip(last.text)

\* C7 as claimed: a cancel command in any state clears the context, emits the
\* cancellation notice and leaves the identity in AwaitingCategory.
C7_CancelToAwaitingCategory ==
  last.kind = "cancel" =>
    /\ SessionContext(last.id) = EmptyData
    /\ last.out = <<CancelledMsg>>
    /\ ConversationState(last.id) = "AwaitingCategory"

\* C7 as amended: a cancel command taken inside a conversation clears the
\* context, emits the cancellation notice and ends the conversation (Idle);
\* with no conversation it is dropped; and the next text of that identity,
\* label or not, is dropped: nothing changes and nothing is sent.
C7_CancelEndsConversation ==
  [][ /\ (last'.kind = "cancel" /\ conv[last'.id] # END) =>
           /\ conv'[last'.id] = END
           /\ user_data'[UserOf(last'.id)] = EmptyData
           /\ last'.out = <<CancelledMsg>>
      /\ (last'.kind = "cancel" /\ conv[last'.id] = END) =>
           /\ UNCHANGED <<conv, user_data>>
           /\ last'.out = <<>>
      /\ (last.kind = "cancel" /\ last'.kind = "text" /\ last'.id = last.id) =>
           /\ UNCHANGED <<conv, user_data, pending>>
           /\ last'.out = <<>>
           /\ last'.calls = <<>>
    ]_vars

C7_Witness ==
  /\ last.kind = "cancel" /\ last.pre.state = "AwaitingContent"
  /\ last.out = <<CancelledMsg>>
  /\ ConversationState(last.id) = "Idle"
  /\ SessionContext(last.id) = EmptyData

\* C8: content received in AwaitingContent without an api_config emits the
\* configuration error, makes no submission call, clears the context and
\* leaves the identity in AwaitingCategory.
C8_ConfigErrorResets ==
  (last.kind = "text" /\ last.pre.state = "AwaitingContent"
     /\ IsContent(last.text) /\ ~api_config) =>
    /\ last.out = <<ConfigErrorMsg>>
    /\ last.calls = <<>>
    /\ SessionContext(last.id) = EmptyData
    /\ ConversationState(last.id) = "AwaitingCategory"

\* the report of a completed submission carries status and body verbatim
ReportsVerbatim ==
  /\ Len(last.out) = 1
  /\ last.out[1].kind \in {"success", "failed"}
  /\ last.out[1].status = <<last.resp[1].status>>
  /\ last.out[1].body = last.resp[1].text

\* C9 as claimed: a submission is reported as success exactly when the status
\* code is in 200..299, as failure otherwise, with status and body verbatim.
C9_SuccessIff2xx ==
  last.resp # <<>> =>
    /\ ReportsVerbatim
    /\ (last.out[1].kind = "success") <=> (last.resp[1].status \in 200..299)

\* C9 as amended: a submission is reported as success exactly when the status
\* code is 200 or 201, and as failure for every other status code and for a
\* transport failure (status 0), with status and body verbatim.
C9_SuccessIff200or201 ==
  last.resp # <<>> =>
    /\ ReportsVerbatim
    /\ (last.out[1].kind = "success") <=> (last.resp[1].status \in {200, 201})

C9_Witness ==
  /\ last.resp # <<>> /\ last.resp[1].status = 201
  /\ Len(last.out) = 1 /\ last.out[1].kind = "success"
  /\ last.out[1].body = "created"

\* C10: an update of one identity reads and writes no conversation state and
\* no session context of another identity: every step leaves the state and
\* the context of all identities but the acting one unchanged.
C10_NoInterference ==
  [][ \A id \in Identities :
        id # last'.id => Snapshot(id)' = Snapshot(id) ]_vars

\* C11: a help command, in any state, changes no conversation state and no
\* session context and makes no submission call; it only emits the help text
\* with the category options, so the stored category is still the one the
\* next content message is sent with.
C11_HelpChangesNothing ==
  [][ /\ last'.kind = "help" =>
           /\ UNCHANGED <<conv, user_data, pending>>
           /\ last'.out = <<HelpMsg>>
           /\ HasKeyboard(last'.out)
           /\ last'.calls = <<>>
      /\ (last.kind = "help" /\ last'.kind = "text" /\ last'.id = last.id
            /\ last'.calls # <<>>) =>
           last'.calls[1].entry_type = last.pre.ctx.entry_type
    ]_vars

C11_Witness ==
  /\ last.kind = "help" /\ last.pre.state = "AwaitingContent"
  /\ ConversationState(last.id) = "AwaitingContent"
  /\ SessionContext(last.id) = last.pre.ctx
  /\ last.out = <<HelpMsg>>

\* the three category display labels, as message texts
LabelTexts == { <<"Task">>, <<"Note">>, <<"Bookmark">> }

\* C12: post_entry is never called with a body equal to a category display
\* label, also for texts with whitespace around a label.
C12_NoLabelAsContent ==
  \A i \in 1..Len(last.calls) : last.calls[i].content \notin LabelTexts

\* C13: post_entry returns an outcome for every attempt, a transport failure
\* as (0, diagnostic); on a transport failure the handler completes with one
\* failure message carrying the diagnostic text, a cleared context and the
\* state AwaitingCategory.
C13_TransportFailureReported ==
  /\ (Handled /\ last.calls # <<>>) => last.resp # <<>>
  /\ (last.resp # <<>> /\ last.resp[1].status = 0) =>
       /\ Len(last.out) = 1
       /\ last.out[1].kind = "failed"
       /\ last.out[1].body \in { "Network error: " \o e : e \in Exceptions }
       /\ SessionContext(last.id) = EmptyData
       /\ ConversationState(last.id) = "AwaitingCategory"

C13_Witness ==
  /\ last.resp # <<>> /\ last.resp[1].status = 0
  /\ Len(last.out) = 1
  /\ last.out[1].body = "Network error: connection refused"
  /\ last.pre.ctx.entry_type = "note"

\* an update of the four event kinds whose handling is over
EventHandled == Handled /\ last.kind \in {"start", "help", "cancel", "text"}

\* C14 as claimed: every inbound event, in any state, emits exactly one
\* outbound message.
C14_ExactlyOneMessage ==
  EventHandled => Len(last.out) = 1

\* the ConversationHandler or the help handler has a handler for the update
Dispatched ==
  \/ last.kind = "help"
  \/ last.kind = "start" /\ last.pre.state = "Idle"
  \/ last.kind \in {"cancel", "text"} /\ last.pre.state # "Idle"

\* C14 as amended: every inbound event emits at most one outbound message,
\* and exactly one when a handler takes it (help always, start with no
\* conversation, cancel and text inside a conversation, a re-dispatched label
\* included); a start inside a conversation and a cancel or text outside one
\* emit nothing.
C14_OneMessageIfDispatched ==
  EventHandled =>
    /\ Len(last.out) <= 1
    /\ (Len(last.out) = 1) <=> Dispatched

C14_Witness ==
  /\ EventHandled /\ last.kind = "text"
  /\ last.pre.state = "AwaitingContent" /\ last.text \in LabelTexts
  /\ Len(last.out) = 1

\* C15: a label typed in AwaitingContent is a new category selection: it
\* replaces the stored category and display name, makes no submission call
\* and leaves the state AwaitingContent; content sent next by that identity is
\* submitted with the category selected last.
C15_LabelReselects ==
  [][ /\ (last'.kind = "text" /\ last'.pre.state = "AwaitingContent"
            /\ last'.text \in LabelTexts) =>
           /\ user_data'[UserOf(last'.id)] =
                [entry_type |-> get_type_by_choice(last'.text),
                 type_display |-> last'.text]
           /\ conv'[last'.id] = WAITING_FOR_CONTENT
           /\ pending' = <<>>
           /\ last'.calls = <<>>
           /\ last'.out = <<SelectedMsg(last'.text)>>
      /\ (last.kind = "text" /\ last.pre.state = "AwaitingContent"
            /\ last.text \in LabelTexts
            /\ last'.kind = "text" /\ last'.id = last.id
            /\ last'.text \notin LabelTexts /\ strip(last'.text) # <<>>) =>
           /\ Len(last'.calls) = 1
           /\ last'.calls[1].entry_type = get_type_by_choice(last.text)
    ]_vars

C15_Witness ==
  /\ last.kind = "text" /\ last.pre.state = "AwaitingContent"
  /\ last.text = <<"Note">> /\ last.pre.ctx.entry_type = "task"
  /\ SessionContext(last.id) =
       [entry_type |-> "note", type_display |-> <<"Note">>]
  /\ ConversationState(last.id) = "AwaitingContent"
  /\ last.calls = <<>>

\* a text made of whitespace only
IsBlank(text) == text # <<>> /\ \A i \in 1..Len(text) : text[i] = Space

\* C16: a text that is empty after trimming, received in AwaitingContent,
\* leaves the state AwaitingContent and the stored category and display name
\* unchanged, emits the empty-content prompt and makes no submission call.
C16_BlankContentRejected ==
  (last.kind = "text" /\ last.pre.state = "AwaitingContent"
     /\ IsBlank(last.text)) =>
    /\ Handled
    /\ ConversationState(last.id) = "AwaitingContent"
    /\ SessionContext(last.id) = last.pre.ctx
    /\ last.out = <<EmptyMsg>>
    /\ last.calls = <<>>

C16_Witness ==
  /\ last.kind = "text" /\ last.pre.state = "AwaitingContent"
  /\ last.text = <<Space>>
  /\ last.out = <<EmptyMsg>>
  /\ SessionContext(last.id).entry_type = "bookmark"

\* the machine value the data model gives each display label
ValueOfLabel ==
  (<<"Task">> :> "task") @@ (<<"Note">> :> "note")
    @@ (<<"Bookmark">> :> "bookmark")

\* C17: each label L received in AwaitingCategory yields AwaitingContent with
\* the context {category: machine value of L, label: L}; labels and machine
\* values correspond one to one, and no other text selects a category.
C17_LabelSelectsItsCategory ==
  /\ (last.kind = "text" /\ last.pre.state = "AwaitingCategory"
        /\ last.text \in LabelTexts) =>
       /\ ConversationState(last.id) = "AwaitingContent"
       /\ SessionContext(last.id) =
            [entry_type |-> ValueOfLabel[last.text],
             type_display |-> last.text]
  /\ \A a, b \in LabelTexts :
       get_type_by_choice(a) = get_type_by_choice(b) => a = b
  /\ { get_type_by_choice(l) : l \in LabelTexts } = Categories
  /\ (last.kind = "text" /\ last.text \notin LabelTexts) =>
       /\ get_type_by_choice(last.text) = None
       /\ SessionContext(last.id).entry_type
            \in {None, last.pre.ctx.entry_type}

C17_Witness ==
  /\ last.kind = "text" /\ last.pre.state = "AwaitingCategory"
  /\ last.text = <<"Bookmark">>
  /\ ConversationState(last.id) = "AwaitingContent"
  /\ SessionContext(last.id).entry_type = "bookmark"

\* C18 as claimed: every message emitted after a completed submission cycle,
\* after a category selection or after an error (invalid selection, empty
\* content, configuration error) carries the category option set.
C18_OptionsAfterCycleSelectionError ==
  (Len(last.out) = 1
     /\ last.out[1].kind \in {"success", "failed", "selected",
                              "invalid_selection", "empty_content",
                              "config_error"}) =>
    HasKeyboard(last.out)

\* C18 as amended: the report of a completed submission cycle (success or
\* failure) carries the category option set; the replies to a category
\* selection, to empty content and to a configuration error carry none, and
\* the invalid-selection reply is never sent.
C18_OptionsAfterCycleOnly ==
  Len(last.out) = 1 =>
    /\ last.out[1].kind \in {"success", "failed"} => HasKeyboard(last.out)
    /\ last.out[1].kind \in {"selected", "empty_content", "config_error"} =>
         last.out[1].reply_markup = NoKeyboard
    /\ last.out[1].kind # "invalid_selection"

C18_Witness ==
  /\ Len(last.out) = 1 /\ last.out[1].kind = "failed"
  /\ last.resp # <<>> /\ last.resp[1].status = 404
  /\ HasKeyboard(last.out)

\* C19: while the requests.post of one identity is pending, an update of
\* every other identity can still be handled.
C19_OthersNotBlocked ==
  pending # <<>> =>
    \A id \in Identities \ {pending[1].id} :
      /\ ENABLED Help(id)
      /\ ENABLED Start(id)
      /\ ENABLED Cancel(id)
      /\ \A text \in Texts : ENABLED Text(id, text)

\* C20: with no conversation (before the first start command, after a cancel
\* command, after a configuration error) a text message is ignored: it changes
\* neither state nor context, emits no message and makes no submission call;
\* a configuration error leaves the identity without a conversation.
C20_TextIgnoredWhenIdle ==
  /\ (last.kind = "text" /\ last.pre.state = "Idle") =>
       /\ Handled
       /\ Snapshot(last.id) = last.pre
       /\ last.out = <<>>
       /\ last.calls = <<>>
  /\ last.out = <<ConfigErrorMsg>> => ConversationState(last.id) = "Idle"

C20_Witness ==
  /\ ~api_config
  /\ last.kind = "text" /\ last.pre.state = "Idle"
  /\ last.text = <<"Note">> /\ last.pre.ctx.entry_type = "task"
  /\ SessionContext(last.id).entry_type = "task"
  /\ last.out = <<>>

====
